---- MODULE Spec2Model ----
(***************************************************************************)
(* Video-Blog-Converter: the HTTP relay (server.js and its revisions) and  *)
(* the form client (VideoBlogConverter.js).                                *)
(*                                                                         *)
(* Text is a sequence of one-character strings.  A message built with a    *)
(* template literal is the sequence of its pieces.                         *)
(***************************************************************************)
EXTENDS Integers, Sequences, FiniteSets, TLC

\* ------------------------------------------------------------------ bounds

\* Number of relay requests whose handlers may be in flight together.
MaxReq == 2

\* Number of clicks on "Convert to Blog Content".
MaxRuns == 2

\* Number of clicks on the thumbnail's download button.
MaxDownloads == 1

\* Number of pieces a URL typed into the form is put together from.
MaxPieces == 4

\* ------------------------------------------------------------------- text

Whitespace == {" ", "\n", "\t"}

StartsWith(s, p) ==
  /\ Len(s) >= Len(p)
  /\ SubSeq(s, 1, Len(p)) = p

\* String.prototype.trim: drop whitespace at the start.
RECURSIVE TrimStart(_)
TrimStart(s) ==
  IF s # <<>> /\ Head(s) \in Whitespace THEN TrimStart(Tail(s)) ELSE s

\* String.prototype.trim: drop whitespace at the end.
RECURSIVE TrimEnd(_)
TrimEnd(s) ==
  IF s # <<>> /\ s[Len(s)] \in Whitespace
  THEN TrimEnd(SubSeq(s, 1, Len(s) - 1))
  ELSE s

\* trim with a slip: only the start is trimmed.
TrimOnlyStart(s) == TrimStart(s)

\* content.trim()
Trim(s) == TrimEnd(TrimStart(s))

\* text.replace(/<pat>\n?/g, ""): every non-overlapping match of pat, with the
\* newline after it when there is one, is removed, scanning left to right.
RECURSIVE ReplaceAll(_, _)
ReplaceAll(s, pat) ==
  IF s = <<>> THEN <<>>
  ELSE IF StartsWith(s, pat)
       THEN LET rest == SubSeq(s, Len(pat) + 1, Len(s))
            IN  ReplaceAll(IF rest # <<>> /\ Head(rest) = "\n" THEN Tail(rest) ELSE rest, pat)
       ELSE <<Head(s)>> \o ReplaceAll(Tail(s), pat)

\* The backtick character (a string literal of the module cannot hold it).
Backtick == "BACKTICK"

Fence == <<Backtick, Backtick, Backtick>>
FenceJson == Fence \o <<"j", "s", "o", "n">>

\* responseText.replace(/```json\n?/g, "").replace(/```\n?/g, "").trim()
StripFences(text) == Trim(ReplaceAll(ReplaceAll(text, FenceJson), Fence))

\* ------------------------------------------------------------------- JSON
\* JSON values: a string [t |-> "s", v |-> chars] or an object
\* [t |-> "o", v |-> <<[k |-> chars, v |-> value], ...>>] with its members in
\* insertion order.  JSONParse is JSON.parse on the fragment of JSON whose
\* values are strings (without escapes) and objects.

JStr(chars) == [t |-> "s", v |-> chars]
JObj(members) == [t |-> "o", v |-> members]

ParseFail == [ok |-> FALSE, val |-> JStr(<<>>), rest |-> <<>>]

RECURSIVE SkipWs(_)
SkipWs(s) ==
  IF s # <<>> /\ Head(s) \in Whitespace THEN SkipWs(Tail(s)) ELSE s

\* The object's members with key k set to v: a repeated key keeps its place
\* and takes the last value, as in JSON.parse.
PutMember(members, k, v) ==
  IF \E i \in 1..Len(members) : members[i].k = k
  THEN [i \in 1..Len(members) |->
          IF members[i].k = k THEN [k |-> k, v |-> v] ELSE members[i]]
  ELSE Append(members, [k |-> k, v |-> v])

\* The characters of a string literal after its opening quote.
RECURSIVE ScanString(_, _)
ScanString(s, acc) ==
  IF s = <<>> THEN ParseFail
  ELSE IF Head(s) = "\"" THEN [ok |-> TRUE, val |-> JStr(acc), rest |-> Tail(s)]
  ELSE IF Head(s) \in {"\n", "\t"} THEN ParseFail
  ELSE ScanString(Tail(s), Append(acc, Head(s)))

RECURSIVE ParseValue(_)
RECURSIVE ParseMembers(_, _)
ParseValue(s0) ==
  LET s == SkipWs(s0) IN
  IF s = <<>> THEN ParseFail
  ELSE IF Head(s) = "\"" THEN ScanString(Tail(s), <<>>)
  ELSE IF Head(s) = "{"
       THEN LET u == SkipWs(Tail(s)) IN
            IF u # <<>> /\ Head(u) = "}"
            THEN [ok |-> TRUE, val |-> JObj(<<>>), rest |-> Tail(u)]
            ELSE ParseMembers(u, <<>>)
       ELSE ParseFail

ParseMembers(s0, acc) ==
  LET s == SkipWs(s0) IN
  IF s = <<>> \/ Head(s) # "\"" THEN ParseFail
  ELSE LET key == ScanString(Tail(s), <<>>) IN
       IF ~key.ok THEN ParseFail
       ELSE LET c == SkipWs(key.rest) IN
            IF c = <<>> \/ Head(c) # ":" THEN ParseFail
            ELSE LET val == ParseValue(Tail(c)) IN
                 IF ~val.ok THEN ParseFail
                 ELSE LET acc2 == PutMember(acc, key.val.v, val.val)
                          d == SkipWs(val.rest)
                      IN  IF d = <<>> THEN ParseFail
                          ELSE IF Head(d) = "}"
                               THEN [ok |-> TRUE, val |-> JObj(acc2), rest |-> Tail(d)]
                          ELSE IF Head(d) = ","
                               THEN ParseMembers(Tail(d), acc2)
                          ELSE ParseFail

\* JSON.parse(text): [ok |-> TRUE, val |-> value], or ok = FALSE when it throws.
JSONParse(text) ==
  LET r == ParseValue(text) IN
  IF r.ok /\ SkipWs(r.rest) = <<>>
  THEN [ok |-> TRUE, val |-> r.val]
  ELSE [ok |-> FALSE, val |-> JStr(<<>>)]

\* --------------------------------------------------------------- the relay
\* The revisions of the server: "openai" is server.js 1-296, "claude" is
\* server.js 297-599, "openai2" is unnamed/part_001 and "claude0" is
\* unnamed/part_002 (the first revision, with the generate endpoint only).

Revisions == {"openai", "openai2", "claude", "claude0"}

CleanPath == "/api/clean-transcript"
GeneratePath == "/api/generate-content"

\* app.post(...) registrations of a revision.
Routes(rev) == IF rev = "claude0" THEN {GeneratePath} ELSE {CleanPath, GeneratePath}

UsesOpenAI(rev) == rev \in {"openai", "openai2"}

KeyName(rev) == IF UsesOpenAI(rev) THEN "OPENAI_API_KEY" ELSE "ANTHROPIC_API_KEY"

KeyPrefix(rev) ==
  IF UsesOpenAI(rev) THEN <<"s", "k", "-">> ELSE <<"s", "k", "-", "a", "n", "t", "-">>

ApiUrl(rev) ==
  IF UsesOpenAI(rev)
  THEN "https://api.openai.com/v1/chat/completions"
  ELSE "https://api.anthropic.com/v1/messages"

\* process.env.<KEY>: unset or empty is <<>>.
ApiKeys ==
  { <<>>,
    <<"s", "k", "-", "1">>,
    <<"s", "k", "-", "a", "n", "t", "-", "1">>,
    <<"k", "e", "y">> }

\* A field of req.body: undefined, or a string.
Undefined == [def |-> FALSE, s |-> <<>>]
Str(chars) == [def |-> TRUE, s |-> chars]
Falsy(x) == ~x.def \/ x.s = <<>>

Transcripts == {Undefined, Str(<<>>), Str(<<"h", "i">>)}
VideoTitles == {Undefined, Str(<<>>), Str(<<"T">>)}

\* req.body of a POST to path.
Bodies(path) ==
  IF path = CleanPath
  THEN {[transcript |-> tr, videoTitle |-> Undefined] : tr \in Transcripts}
  ELSE {[transcript |-> tr, videoTitle |-> vt] : tr \in Transcripts, vt \in VideoTitles}

DefaultTitle == <<"V", "i", "d", "e", "o", " ", "c", "o", "n", "t", "e", "n", "t">>

\* The prompt template literal: which template, and what it interpolates.
\* Only the generate prompts of server.js and part_002 interpolate
\* videoTitle || 'Video content'.
Prompt(rev, q) ==
  [ template |-> <<rev, q.endpoint>>,
    transcript |-> q.body.transcript.s,
    title |-> IF q.endpoint = GeneratePath /\ rev # "openai2"
              THEN (IF Falsy(q.body.videoTitle) THEN DefaultTitle ELSE q.body.videoTitle.s)
              ELSE <<>> ]

\* What a handler segment does: the responses it writes (res.status().json()),
\* the outbound calls it starts (fetch) and where the handler is afterwards.
Effect(sentNow, callsNow, pcNext) ==
  [sent |-> sentNow, calls |-> callsNow, pc |-> pcNext]

\* return res.status(status).json({ error })
Reply(status, message) ==
  Effect(<<[status |-> status, body |-> [error |-> message]]>>, <<>>, "done")

\* The handler's catch block, for an error with the given message.
Catch(rev, path, message) ==
  IF rev = "claude0" THEN Reply(500, <<"Failed to generate content">>)
  ELSE IF path = CleanPath THEN Reply(500, <<"Failed to clean transcript: ">> \o message)
  ELSE Reply(500, <<"Failed to generate content: ">> \o message)

\* 'Invalid OPENAI_API_KEY format. Should start with sk-' and its Anthropic
\* counterpart, in pieces.
InvalidKeyFormat(rev) ==
  <<"Invalid ", KeyName(rev), " format. Should start with ",
    IF UsesOpenAI(rev) THEN "sk-" ELSE "sk-ant-">>

\* await fetch(ApiUrl, ...): one outbound call is started.
Fetch(rev, q) ==
  Effect(<<>>, <<[url |-> ApiUrl(rev), content |-> Prompt(rev, q)]>>, "fetch")

\* makeRequest without the check of the key's format.
makeRequestNoFormatCheck(rev, key, q) == Fetch(rev, q)

\* makeOpenAIRequest / makeClaudeRequest, up to its await; part_002 calls
\* fetch inline, with no check of the key's format.
makeRequest(rev, key, q) ==
  IF rev # "claude0" /\ (key = <<>> \/ ~StartsWith(key, KeyPrefix(rev)))
  THEN Catch(rev, q.endpoint, InvalidKeyFormat(rev))
  ELSE Fetch(rev, q)

\* handlerStart with the `return` before the first res.status(400) lost: the
\* handler answers 400 and goes on.
handlerStartNoReturn(rev, key, q) ==
  LET rest == IF key = <<>> THEN Reply(500, <<KeyName(rev), " not configured">>)
              ELSE makeRequest(rev, key, q)
  IN  IF Falsy(q.body.transcript)
      THEN Effect(Reply(400, <<"Transcript is required">>).sent \o rest.sent,
                  rest.calls, rest.pc)
      ELSE rest

\* handlerStart with the two checks in the other order: the key first.
handlerStartKeyFirst(rev, key, q) ==
  IF key = <<>> THEN Reply(500, <<KeyName(rev), " not configured">>)
  ELSE IF Falsy(q.body.transcript) THEN Reply(400, <<"Transcript is required">>)
  ELSE makeRequest(rev, key, q)

\* handlerStart with videoTitle validated like transcript.
handlerStartTitleRequired(rev, key, q) ==
  IF Falsy(q.body.transcript) THEN Reply(400, <<"Transcript is required">>)
  ELSE IF q.endpoint = GeneratePath /\ Falsy(q.body.videoTitle)
       THEN Reply(400, <<"Video title is required">>)
  ELSE IF key = <<>> THEN Reply(500, <<KeyName(rev), " not configured">>)
  ELSE makeRequest(rev, key, q)

\* The handler from its start to its first await or its response.
handlerStart(rev, key, q) ==
  IF Falsy(q.body.transcript) THEN Reply(400, <<"Transcript is required">>)
  ELSE IF key = <<>> THEN Reply(500, <<KeyName(rev), " not configured">>)
  ELSE makeRequest(rev, key, q)

\* ------------------------------------------------ the upstream API's answers

Statuses == {200, 400, 401, 429, 503, 529}

\* response.ok
Ok(status) == status \in 200..299

\* The promise of fetch settles: it rejects (a network error), or it resolves
\* with a response of some status.
FetchOutcomes ==
  {[kind |-> "throw", status |-> 0, message |-> <<"fetch failed">>]}
    \cup {[kind |-> "response", status |-> st, message |-> <<>>] : st \in Statuses}

Quote == "\""

\* JSON.stringify of a value (what the upstream puts in its message text).
RECURSIVE Encode(_)
RECURSIVE EncodeMembers(_)
Encode(val) ==
  IF val.t = "s" THEN <<Quote>> \o val.v \o <<Quote>>
  ELSE <<"{">> \o EncodeMembers(val.v) \o <<"}">>

EncodeMembers(members) ==
  IF members = <<>> THEN <<>>
  ELSE <<Quote>> \o Head(members).k \o <<Quote, ":">> \o Encode(Head(members).v)
         \o (IF Len(members) > 1 THEN <<",">> ELSE <<>>)
         \o EncodeMembers(Tail(members))

Member(key, val) == [k |-> key, v |-> val]

\* JSON objects the upstream may encode in its message text; the third has
\* backticks inside a string value.
ContentObjects ==
  { JObj(<<>>),
    JObj(<<Member(<<"a">>, JStr(<<"x">>))>>),
    JObj(<<Member(<<"a">>, JStr(<<"x", " ", "y">>)),
           Member(<<"b">>, JObj(<<Member(<<"c">>, JStr(<<"z">>))>>))>>),
    JObj(<<Member(<<"a">>, JStr(<<"p", Backtick, Backtick, Backtick, "q">>))>>) }

\* How the upstream may wrap the JSON text: bare, in a json fence, in a plain
\* fence, or padded with whitespace.
Wrappings ==
  { [pre |-> <<>>, post |-> <<>>],
    [pre |-> FenceJson \o <<"\n">>, post |-> <<"\n">> \o Fence],
    [pre |-> Fence \o <<"\n">>, post |-> <<"\n">> \o Fence \o <<"\n">>],
    [pre |-> <<" ", "\n">>, post |-> <<" ">>] }

Wrap(w, text) == w.pre \o text \o w.post

\* Message texts that are no JSON, bare or in a fence, among them a transcript
\* with whitespace around and inside it.
PlainTexts ==
  { <<>>, <<"o", "k">>, <<"{">>, <<" ", "\n", "H", "i", " ", "y", "o", "u", "\n">>,
    FenceJson \o <<"\n", "o", "k", "\n">> \o Fence,
    <<"{", "}", "x">> }

\* data.choices[0].message.content / data.content[0].text
ContentTexts ==
  {Wrap(w, Encode(o)) : w \in Wrappings, o \in ContentObjects} \cup PlainTexts

\* The body of an upstream response, as response.json() sees it: not JSON,
\* the JSON null, or a JSON object with error.message, message (<<>> when
\* absent or empty) and the first message's text (Undefined when the object
\* has no such structure).
Body(kind, errorMessage, message, content) ==
  [kind |-> kind, errorMessage |-> errorMessage, message |-> message, content |-> content]

NoBody == Body("none", <<>>, <<>>, Undefined)

OkBodies ==
  {Body("nonjson", <<>>, <<>>, Undefined), Body("null", <<>>, <<>>, Undefined),
   Body("object", <<>>, <<>>, Undefined)}
    \cup {Body("object", <<>>, <<>>, Str(c)) : c \in ContentTexts}

ErrorBodies ==
  {Body("nonjson", <<>>, <<>>, Undefined), Body("null", <<>>, <<>>, Undefined)}
    \cup {Body("object", em, m, Undefined) :
            em \in {<<>>, <<"Overloaded">>}, m \in {<<>>, <<"Bad gateway">>}}

BodiesOf(status) == IF Ok(status) THEN OkBodies ELSE ErrorBodies

\* The messages of the errors the runtime throws.
JsonErrorMessage == <<"Unexpected token < in JSON at position 0">>
TypeErrorMessage == <<"Cannot read properties of undefined">>

\* ------------------------------------------- the handlers after their awaits

Digits == <<"0", "1", "2", "3", "4", "5", "6", "7", "8", "9">>

\* `${response.status}`
RECURSIVE Decimal(_)
Decimal(n) ==
  IF n < 10 THEN <<Digits[n + 1]>>
  ELSE Decimal(n \div 10) \o <<Digits[(n % 10) + 1]>>

\* a || b on message strings (<<>> is falsy).
OrElse(a, b) == IF a # <<>> THEN a ELSE b

\* onFetchSettled with a retry: a rejected fetch is issued again.
onFetchSettledRetry(rev, q, outcome) ==
  IF outcome.kind = "throw" THEN Fetch(rev, q)
  ELSE Effect(<<>>, <<>>, "body")

\* The handler when the promise of fetch has settled: a rejection is thrown
\* into the catch block, a response goes on to await response.json().
onFetchSettled(rev, q, outcome) ==
  IF outcome.kind = "throw" THEN Catch(rev, q.endpoint, outcome.message)
  ELSE Effect(<<>>, <<>>, "body")

\* errorData after try { await response.json() } catch { default }; part_002
\* has no try around it, there the parse error reaches the handler's catch.
ParsedErrorData(body) ==
  IF body.kind = "nonjson"
  THEN Body("object", <<"Failed to parse error response">>, <<>>, Undefined)
  ELSE body

\* /api/clean-transcript, !response.ok
cleanUpstreamError(rev, status, errorData) ==
  IF errorData.kind = "null" THEN Catch(rev, CleanPath, TypeErrorMessage)
  ELSE Reply(status, <<"Failed to clean transcript: ">>
                       \o OrElse(errorData.errorMessage, <<"Unknown error">>))

OverloadStatus(rev) == IF UsesOpenAI(rev) THEN 429 ELSE 529

OverloadMessage(rev) ==
  IF UsesOpenAI(rev)
  THEN <<"OpenAI API rate limit exceeded. Please try again in a few minutes.">>
  ELSE <<"Claude API is temporarily overloaded. Please try again in a few minutes.">>

\* /api/generate-content, !response.ok
generateUpstreamError(rev, status, errorData) ==
  IF rev = "claude0"
  THEN IF errorData.kind = "null" THEN Catch(rev, GeneratePath, TypeErrorMessage)
       ELSE Reply(status, <<"API request failed: ">>
                            \o OrElse(errorData.errorMessage, <<"Unknown error">>))
  ELSE LET head == <<"API request failed (">> \o Decimal(status) \o <<"): ">> IN
       IF status = OverloadStatus(rev) THEN Reply(status, head \o OverloadMessage(rev))
       ELSE IF status = 401 THEN Reply(status, head \o <<"Invalid API key configuration">>)
       ELSE IF status = 400 THEN Reply(status, head \o <<"Invalid request format">>)
       ELSE IF errorData.kind = "null" THEN Catch(rev, GeneratePath, TypeErrorMessage)
       ELSE Reply(status, head \o OrElse(errorData.errorMessage,
                                         OrElse(errorData.message,
                                                <<"Service temporarily unavailable">>)))

\* The !response.ok branch of either handler.
upstreamError(rev, q, status, body) ==
  IF rev = "claude0" /\ body.kind = "nonjson"
  THEN Catch(rev, q.endpoint, JsonErrorMessage)
  ELSE IF q.endpoint = CleanPath
       THEN cleanUpstreamError(rev, status, ParsedErrorData(body))
       ELSE generateUpstreamError(rev, status, ParsedErrorData(body))

\* res.json(value)
Send(value) == Effect(<<[status |-> 200, body |-> value]>>, <<>>, "done")

\* /api/clean-transcript: content.trim(), res.json({ cleanedTranscript })
cleanSuccess(content) == Send([cleanedTranscript |-> Trim(content)])

\* generateSuccess without the catch of the parse error: the text is sent as
\* it is.
generateSuccessLenient(content) ==
  LET parsed == JSONParse(StripFences(content)) IN
  IF parsed.ok THEN Send(parsed.val) ELSE Send(JStr(content))

\* /api/generate-content: strip the fences, JSON.parse, res.json(generatedContent)
generateSuccess(content) ==
  LET parsed == JSONParse(StripFences(content)) IN
  IF parsed.ok THEN Send(parsed.val)
  ELSE Reply(500, <<"Failed to parse generated content">>)

\* The handler when response.json() has settled.
onBodyRead(rev, q, status, body) ==
  IF ~Ok(status) THEN upstreamError(rev, q, status, body)
  ELSE IF body.kind = "nonjson" THEN Catch(rev, q.endpoint, JsonErrorMessage)
  ELSE IF body.kind = "null" \/ ~body.content.def
       THEN Catch(rev, q.endpoint, TypeErrorMessage)
  ELSE IF q.endpoint = CleanPath THEN cleanSuccess(body.content.s)
  ELSE generateSuccess(body.content.s)

\* ------------------------------------------------------------- the client
\* VideoBlogConverter.js: the form, handleProcess and what it calls.

WatchMarker ==
  <<"y", "o", "u", "t", "u", "b", "e", ".", "c", "o", "m", "/",
    "w", "a", "t", "c", "h", "?", "v", "=">>

ShortMarker == <<"y", "o", "u", "t", "u", ".", "b", "e", "/">>

\* The characters [^&\n?#] excludes.
IdStops == {"&", "\n", "?", "#"}

\* ([^&\n?#]+), greedy: the longest prefix of s without a stop character.
RECURSIVE IdRun(_)
IdRun(s) ==
  IF s = <<>> \/ Head(s) \in IdStops THEN <<>>
  ELSE <<Head(s)>> \o IdRun(Tail(s))

\* The regex tried at the start of s: the captured group, or <<>> for no match.
MatchAt(s) ==
  IF StartsWith(s, WatchMarker) THEN IdRun(SubSeq(s, Len(WatchMarker) + 1, Len(s)))
  ELSE IF StartsWith(s, ShortMarker) THEN IdRun(SubSeq(s, Len(ShortMarker) + 1, Len(s)))
  ELSE <<>>

\* extractVideoId giving up at the first marker, whatever follows it.
RECURSIVE extractVideoIdFirstOnly(_)
extractVideoIdFirstOnly(url) ==
  IF url = <<>> THEN <<>>
  ELSE IF StartsWith(url, WatchMarker) \/ StartsWith(url, ShortMarker) THEN MatchAt(url)
  ELSE extractVideoIdFirstOnly(Tail(url))

\* extractVideoId(url): url.match(...) tries every position from the left;
\* match[1] of the first position that matches, or null (here <<>>: a match's
\* group is never empty).
RECURSIVE extractVideoId(_)
extractVideoId(url) ==
  IF url = <<>> THEN <<>>
  ELSE IF MatchAt(url) # <<>> THEN MatchAt(url)
  ELSE extractVideoId(Tail(url))

Https == <<"h", "t", "t", "p", "s", ":", "/", "/">>

\* What the user may have typed in the URL field.
Urls ==
  { <<>>,
    Https \o WatchMarker \o <<"a", "b", "&", "t", "=", "1">>,
    Https \o ShortMarker \o <<"c", "d", "?", "s", "i">>,
    Https \o <<"y", "o", "u", "t", "u", "b", "e", ".", "c", "o", "m", "/",
               "w", "a", "t", "c", "h", "?", "t", "=", "1", "&", "v", "=", "a", "b">>,
    Https \o <<"x", ".", "y">> }

\* A watch URL's start with another query parameter before v.
WatchOther ==
  <<"y", "o", "u", "t", "u", "b", "e", ".", "c", "o", "m", "/",
    "w", "a", "t", "c", "h", "?", "t", "=", "1", "&", "v", "=">>

\* The pieces of a URL: the two markers, a watch URL with v in second place,
\* a plain character and the four characters that end an id.
UrlPieces ==
  {WatchMarker, ShortMarker, WatchOther, <<"a">>, <<"&">>, <<"?">>, <<"#">>, <<"\n">>}

\* The texts put together from at most n pieces.
RECURSIVE PiecedUrls(_)
PiecedUrls(n) ==
  IF n = 0 THEN {<<>>}
  ELSE PiecedUrls(n - 1) \cup {u \o piece : u \in PiecedUrls(n - 1), piece \in UrlPieces}

\* What the user may have typed in the URL field, piece by piece.
UrlInputs == PiecedUrls(MaxPieces)

\* What the user may have pasted in the transcript field.
FormTranscripts == { <<>>, <<"u", "m", " ", "h", "i">> }

\* `Video Content - ${videoId}`
videoTitleOf(videoId) == <<"Video Content - ">> \o videoId

\* thumbnailUrlOf with another image name.
thumbnailUrlHq(videoId) ==
  <<"https://img.youtube.com/vi/">> \o videoId \o <<"/hqdefault.jpg">>

\* `https://img.youtube.com/vi/${videoId}/maxresdefault.jpg`
thumbnailUrlOf(videoId) ==
  <<"https://img.youtube.com/vi/">> \o videoId \o <<"/maxresdefault.jpg">>

\* What a fetch of the client settles with: a rejection, or a response with a
\* status and a body that is JSON (json, with its fields) or is not.
Rejected(message) ==
  [kind |-> "throw", status |-> 0, json |-> FALSE, message |-> message,
   error |-> <<>>, cleanedTranscript |-> Undefined, content |-> Undefined]

Answered(status, json, error, cleaned, content) ==
  [kind |-> "response", status |-> status, json |-> json, message |-> <<>>,
   error |-> error, cleanedTranscript |-> cleaned, content |-> content]

NoAnswer ==
  [kind |-> "none", status |-> 0, json |-> FALSE, message |-> <<>>,
   error |-> <<>>, cleanedTranscript |-> Undefined, content |-> Undefined]

NetworkError == <<"Failed to fetch">>

\* The answers to POST /api/clean-transcript: the relay's 200 with a cleaned
\* transcript (or an empty one), its error answers, a 2xx without the field,
\* a body that is no JSON, a network error.
CleanAnswers ==
  { Rejected(NetworkError),
    Answered(200, TRUE, <<>>, Str(<<"H", "i">>), Undefined),
    Answered(200, TRUE, <<>>, Str(<<>>), Undefined),
    Answered(200, TRUE, <<>>, Undefined, Undefined),
    Answered(200, FALSE, <<>>, Undefined, Undefined),
    Answered(500, TRUE, <<"Failed to clean transcript: ", "Overloaded">>, Undefined, Undefined),
    Answered(400, TRUE, <<"Transcript is required">>, Str(<<"N", "o">>), Undefined) }

Faq(question, answer) == [question |-> question, answer |-> answer]

\* generatedContent: the fields handleProcess reads; faqs is a list, or
\* undefined (def = FALSE).
Content(seoTitle, faqs, schemaMarkup) ==
  [def |-> TRUE, seoTitle |-> seoTitle, faqs |-> faqs, schemaMarkup |-> schemaMarkup]

List(items) == [def |-> TRUE, items |-> items]
NoList == [def |-> FALSE, items |-> <<>>]

TwoFaqs == List(<<Faq(<<"Q", "1">>, <<"A", "1">>), Faq(<<"Q", "2">>, <<"A", "2">>)>>)

Contents ==
  { Content(Str(<<"S">>), TwoFaqs, Str(<<"<", "d", "i", "v", ">">>)),
    Content(Str(<<"S">>), TwoFaqs, Str(<<>>)),
    Content(Str(<<"S">>), List(<<>>), Undefined),
    Content(Undefined, NoList, Undefined) }

\* The answers to POST /api/generate-content.
GenerateAnswers ==
  { Rejected(NetworkError),
    Answered(500, TRUE, <<"Failed to parse generated content">>, Undefined, Undefined),
    Answered(429, TRUE, <<>>, Undefined, Undefined),
    Answered(413, FALSE, <<>>, Undefined, Undefined),
    Answered(200, FALSE, <<>>, Undefined, Undefined) }
    \cup {Answered(200, TRUE, <<>>, Undefined, c) : c \in Contents}

StepIds == <<"validate", "extract", "clean", "generate", "finalize">>

InitialDescription(id) ==
  CASE id = "validate" -> <<"Checking YouTube URL and transcript...">>
    [] id = "extract" -> <<"Getting video ID and thumbnail information...">>
    [] id = "clean" -> <<"Formatting transcript with Claude AI for readability...">>
    [] id = "generate" -> <<"Creating title, meta description, FAQs, and takeaways...">>
    [] id = "finalize" -> <<"Preparing schema markup and organizing results...">>

\* The steps initializeProcessingSteps sets.
InitialSteps ==
  [i \in 1..Len(StepIds) |->
     [id |-> StepIds[i], status |-> "pending", description |-> InitialDescription(StepIds[i])]]

\* MapStep without the comparison of the step's id: every step takes the
\* status.
MapStepAll(steps, stepId, status, description) ==
  [i \in 1..Len(steps) |->
     [id |-> steps[i].id, status |-> status,
      description |-> IF description # <<>> THEN description ELSE steps[i].description]]

\* The mapping of updateStep: the step with this id takes the status, and the
\* description when one is given (<<>> is none).
MapStep(steps, stepId, status, description) ==
  [i \in 1..Len(steps) |->
     IF steps[i].id = stepId
     THEN [id |-> steps[i].id, status |-> status,
           description |-> IF description # <<>> THEN description ELSE steps[i].description]
     ELSE steps[i]]

\* findIndex (0-based; -1 when there is none).
FindIndex(steps, stepId) ==
  IF \E i \in 1..Len(steps) : steps[i].id = stepId
  THEN (CHOOSE i \in 1..Len(steps) :
          /\ steps[i].id = stepId
          /\ \A j \in 1..(i - 1) : steps[j].id # stepId) - 1
  ELSE -1

\* The catch block's update: the step at the index the closure holds is marked
\* failed, when there is one.
MarkFailed(steps, index, message) ==
  IF index + 1 \in 1..Len(steps)
  THEN MapStep(steps, steps[index + 1].id, "failed", <<"Error: ">> \o message)
  ELSE steps

\* generateFAQSchema(faqs): the schema object, inside the script element.
generateFAQSchema(faqs) ==
  [ open |-> "<script type=\"application/ld+json\">",
    context |-> "https://schema.org",
    type |-> "FAQPage",
    mainEntity |->
      [i \in 1..Len(faqs) |->
         [ type |-> "Question",
           name |-> faqs[i].question,
           acceptedAnswer |-> [type |-> "Answer", text |-> faqs[i].answer] ]],
    close |-> "</script>" ]

\* ------------------------------------------------------------------ state

VARIABLES
  revision,   \* which revision of the server runs
  apiKey,     \* process.env.OPENAI_API_KEY / ANTHROPIC_API_KEY
  pc,         \* per request: "idle", "fetch", "body" or "done"
  req,        \* per request: its path and req.body
  upstream,   \* per request: what its own outbound call answered
  calls,      \* per request: the outbound calls its handler started
  sent        \* per request: the HTTP responses its handler wrote

relayVars == <<revision, apiKey, pc, req, upstream, calls, sent>>

VARIABLES
  cpc,                 \* where handleProcess is
  runs,                \* clicks on the convert button so far
  downloads,           \* clicks on the download button so far
  runUrl,              \* url, as the closure of the latest handleProcess call holds it
  runTranscript,       \* transcript, as that closure holds it
  closureIndex,        \* currentStepIndex, as that closure holds it
  processing,          \* useState: processing
  processingStep,      \* useState: processingStep
  processingSteps,     \* useState: processingSteps
  currentStepIndex,    \* useState: currentStepIndex
  results,             \* useState: results
  alerts,              \* the alerts shown, in order
  requests,            \* the fetches started, in order
  pending,             \* the indices in requests of the fetches not settled yet
  videoId,             \* const videoId of the run
  thumbnailUrl,        \* const thumbnailUrl of the run
  cleanAnswer,         \* what the run's fetch of /api/clean-transcript settled with
  generateAnswer,      \* what the run's fetch of /api/generate-content settled with
  formattedTranscript, \* const formattedTranscript of the run
  generatedContent,    \* const generatedContent of the run
  errorMessage         \* error.message in the catch block

runVars ==
  <<runUrl, runTranscript, closureIndex, videoId, thumbnailUrl, cleanAnswer, generateAnswer,
    formattedTranscript, generatedContent, errorMessage>>

displayVars == <<processing, processingStep, processingSteps, currentStepIndex>>

clientVars == <<cpc, runs, downloads, runVars, displayVars, results, alerts, requests, pending>>

vars == <<relayVars, clientVars>>

Requests == 1..MaxReq

NoRequest == [endpoint |-> "", body |-> [transcript |-> Undefined, videoTitle |-> Undefined]]
NoOutcome == [kind |-> "none", status |-> 0, message |-> <<>>]

NoContent == Content(Undefined, NoList, Undefined)

NoResults ==
  [def |-> FALSE, videoId |-> <<>>, formattedTranscript |-> <<>>, thumbnailUrl |-> <<>>,
   seoTitle |-> Undefined, faqs |-> NoList, schemaMarkup |-> [given |-> Undefined]]

RelayIdle ==
  /\ pc = [r \in Requests |-> "idle"]
  /\ req = [r \in Requests |-> NoRequest]
  /\ upstream = [r \in Requests |-> [outcome |-> NoOutcome, body |-> NoBody]]
  /\ calls = [r \in Requests |-> <<>>]
  /\ sent = [r \in Requests |-> <<>>]

\* No run of handleProcess is on, and none has been.
RunIdle ==
  /\ runUrl = <<>>
  /\ runTranscript = <<>>
  /\ closureIndex = 0
  /\ videoId = <<>>
  /\ thumbnailUrl = <<>>
  /\ cleanAnswer = NoAnswer
  /\ generateAnswer = NoAnswer
  /\ formattedTranscript = <<>>
  /\ generatedContent = NoContent
  /\ errorMessage = <<>>

ClientIdle ==
  /\ cpc = "idle"
  /\ runs = 0
  /\ downloads = 0
  /\ RunIdle
  /\ processing = FALSE
  /\ processingStep = ""
  /\ processingSteps = <<>>
  /\ currentStepIndex = 0
  /\ results = NoResults
  /\ alerts = <<>>
  /\ requests = <<>>
  /\ pending = {}

Init ==
  /\ revision \in Revisions
  /\ apiKey \in ApiKeys
  /\ RelayIdle
  /\ ClientIdle

\* The request a handler invocation works on: the parameter of its closure.
requestOf(r) == req[r]

\* responseOf with the response kept in one variable of the module, which
\* the first request's call has set.
sharedResponse(r) == upstream[1]

\* The upstream response a handler invocation works on: a const of its own
\* closure.
responseOf(r) == upstream[r]

\* A handler segment's effect on request r.
Apply(r, effect) ==
  /\ sent' = [sent EXCEPT ![r] = @ \o effect.sent]
  /\ calls' = [calls EXCEPT ![r] = @ \o effect.calls]
  /\ pc' = [pc EXCEPT ![r] = effect.pc]

\* A POST arrives and its handler runs to its first await or its response.
\* Requests are numbered in the order they arrive.
Receive(r) ==
  /\ pc[r] = "idle"
  /\ \A earlier \in 1..(r - 1) : pc[earlier] # "idle"
  /\ \E path \in Routes(revision) : \E body \in Bodies(path) :
       LET q == [endpoint |-> path, body |-> body] IN
       /\ req' = [req EXCEPT ![r] = q]
       /\ Apply(r, handlerStart(revision, apiKey, q))
  /\ UNCHANGED <<revision, apiKey, upstream, clientVars>>

\* The outbound call of request r settles.
FetchSettles(r) ==
  /\ pc[r] = "fetch"
  /\ \E outcome \in FetchOutcomes :
       /\ upstream' = [upstream EXCEPT ![r].outcome = outcome]
       /\ Apply(r, onFetchSettled(revision, requestOf(r), outcome))
  /\ UNCHANGED <<revision, apiKey, req, clientVars>>

\* The body of the upstream response of request r has been read.
BodyRead(r) ==
  /\ pc[r] = "body"
  /\ \E body \in BodiesOf(responseOf(r).outcome.status) :
       /\ upstream' = [upstream EXCEPT ![r].body = body]
       /\ Apply(r, onBodyRead(revision, requestOf(r), responseOf(r).outcome.status, body))
  /\ UNCHANGED <<revision, apiKey, req, clientVars>>

Next ==
  \E r \in Requests :
    \/ Receive(r)
    \/ FetchSettles(r)
    \/ BodyRead(r)

Spec == Init /\ [][Next]_vars

\* ----------------------------------------------------- the client's actions

\* updateStep(stepId, status, description): the new steps, and the new
\* currentStepIndex (set when the status is 'active').
updateStep(display, stepId, status, description) ==
  LET newSteps == MapStep(display.steps, stepId, status, description) IN
  [ steps |-> newSteps,
    index |-> IF status = "active" THEN FindIndex(newSteps, stepId) ELSE display.index ]

Display == [steps |-> processingSteps, index |-> currentStepIndex]

SetDisplay(display) ==
  /\ processingSteps' = display.steps
  /\ currentStepIndex' = display.index

\* A fetch of the run is started.
StartFetch(url, body) ==
  /\ requests' = Append(requests, [url |-> url, body |-> body, by |-> "handleProcess", run |-> runs])
  /\ pending' = pending \cup {Len(requests) + 1}

\* The body of the fetch formatTranscript sends.
cleanRequestBody(text) == [transcript |-> text]

\* The body of the fetch generateContent sends.
generateRequestBody(text, title) == [transcript |-> text, videoTitle |-> title]

\* The catch and finally blocks of handleProcess: the step at the index the
\* closure holds is marked failed; the alert and the reset are put on timers.
Throw(message) ==
  /\ processingSteps' = MarkFailed(processingSteps, closureIndex, message)
  /\ errorMessage' = message
  /\ cpc' = "alertTimer"

\* What handleProcess does up to its first await when url and transcript are
\* both given: the modal opens with the steps, the first of them active.
StartRun ==
  /\ processing' = TRUE
  /\ SetDisplay(updateStep([steps |-> InitialSteps, index |-> 0],
                           "validate", "active", <<>>))
  /\ closureIndex' = currentStepIndex
  /\ videoId' = <<>>
  /\ thumbnailUrl' = <<>>
  /\ cleanAnswer' = NoAnswer
  /\ generateAnswer' = NoAnswer
  /\ formattedTranscript' = <<>>
  /\ generatedContent' = NoContent
  /\ errorMessage' = <<>>
  /\ cpc' = "validate"
  /\ UNCHANGED <<processingStep, alerts>>

\* handleProcess is called (the button is disabled while processing) with the
\* url and the transcript of the form, which hold one of urls and one of texts.
ClickOn(urls, texts) ==
  /\ cpc = "idle"
  /\ UNCHANGED relayVars
  /\ runs < MaxRuns
  /\ runs' = runs + 1
  /\ \E u \in urls : \E text \in texts :
       /\ runUrl' = u
       /\ runTranscript' = text
       /\ IF u = <<>> \/ text = <<>>
          THEN /\ alerts' = Append(alerts, <<"Please provide both URL and transcript">>)
               /\ UNCHANGED <<cpc, closureIndex, videoId, thumbnailUrl, cleanAnswer, generateAnswer,
                              formattedTranscript, generatedContent, errorMessage,
                              displayVars>>
          ELSE StartRun
  /\ UNCHANGED <<downloads, results, requests, pending>>

\* Click without the guard on url and transcript: every click starts a run.
ClickNoGuard ==
  /\ cpc = "idle"
  /\ UNCHANGED relayVars
  /\ runs < MaxRuns
  /\ runs' = runs + 1
  /\ \E u \in Urls : \E text \in FormTranscripts :
       /\ runUrl' = u
       /\ runTranscript' = text
       /\ StartRun
  /\ UNCHANGED <<downloads, results, requests, pending>>

\* A click on "Convert to Blog Content".
Click == ClickOn(Urls, FormTranscripts)

\* ValidateDone without the check of the video id.
ValidateDoneNoCheck ==
  /\ cpc = "validate"
  /\ UNCHANGED relayVars
  /\ videoId' = extractVideoId(runUrl)
  /\ SetDisplay(updateStep(updateStep(Display, "validate", "completed", <<>>),
                           "extract", "active", <<>>))
  /\ cpc' = "extract"
  /\ UNCHANGED <<runs, downloads, runUrl, runTranscript, closureIndex, thumbnailUrl,
                 cleanAnswer, generateAnswer, formattedTranscript, generatedContent, errorMessage,
                 processing, processingStep, results, alerts, requests, pending>>

\* Step 1 after its 500 ms: the video id is extracted, or the run throws.
ValidateDone ==
  /\ cpc = "validate"
  /\ UNCHANGED relayVars
  /\ LET id == extractVideoId(runUrl) IN
     IF id = <<>>
     THEN /\ Throw(<<"Invalid YouTube URL">>)
          /\ UNCHANGED <<videoId, currentStepIndex>>
     ELSE /\ videoId' = id
          /\ SetDisplay(updateStep(updateStep(Display, "validate", "completed", <<>>),
                                   "extract", "active", <<>>))
          /\ cpc' = "extract"
          /\ UNCHANGED errorMessage
  /\ UNCHANGED <<runs, downloads, runUrl, runTranscript, closureIndex, thumbnailUrl,
                 cleanAnswer, generateAnswer, formattedTranscript, generatedContent, processing,
                 processingStep, results, alerts, requests, pending>>

\* ExtractDone with the await before formatTranscript(transcript) lost: the
\* fetch of generateContent is started while that of formatTranscript is in
\* flight.
ExtractDoneNoAwait ==
  /\ cpc = "extract"
  /\ UNCHANGED relayVars
  /\ thumbnailUrl' = thumbnailUrlOf(videoId)
  /\ SetDisplay(updateStep(updateStep(Display, "clean", "completed", <<>>),
                           "generate", "active", <<>>))
  /\ processingStep' = "Cleaning transcript with AI..."
  /\ requests' = requests \o
       <<[url |-> <<CleanPath>>, body |-> cleanRequestBody(runTranscript),
          by |-> "handleProcess", run |-> runs],
         [url |-> <<GeneratePath>>,
          body |-> generateRequestBody(runTranscript, videoTitleOf(videoId)),
          by |-> "handleProcess", run |-> runs]>>
  /\ pending' = {Len(requests) + 1, Len(requests) + 2}
  /\ cpc' = "generateFetch"
  /\ UNCHANGED <<runs, downloads, runUrl, runTranscript, closureIndex, videoId,
                 cleanAnswer, generateAnswer, formattedTranscript, generatedContent, errorMessage,
                 processing, results, alerts>>

\* Step 2 after its 300 ms, and step 3 up to the fetch of formatTranscript
\* (which returns '' at once for an empty text).
ExtractDone ==
  /\ cpc = "extract"
  /\ UNCHANGED relayVars
  /\ thumbnailUrl' = thumbnailUrlOf(videoId)
  /\ LET cleaning == updateStep(updateStep(Display, "extract", "completed", <<>>),
                                "clean", "active",
                                <<"Processing transcript with Claude AI...">>)
     IN  IF runTranscript = <<>>
         THEN /\ SetDisplay(updateStep(updateStep(cleaning, "clean", "completed", <<>>),
                                       "generate", "active",
                                       <<"Generating SEO content with Claude AI...">>))
              /\ StartFetch(<<GeneratePath>>, generateRequestBody(<<>>, videoTitleOf(videoId)))
              /\ cpc' = "generateFetch"
              /\ UNCHANGED processingStep
         ELSE /\ SetDisplay(cleaning)
              /\ processingStep' = "Cleaning transcript with AI..."
              /\ StartFetch(<<CleanPath>>, cleanRequestBody(runTranscript))
              /\ cpc' = "cleanFetch"
  /\ UNCHANGED <<runs, downloads, runUrl, runTranscript, closureIndex, videoId,
                 cleanAnswer, generateAnswer, formattedTranscript, generatedContent, errorMessage,
                 processing, results, alerts>>

\* formatTranscriptResult without the check of response.ok.
formatTranscriptResultNoOkCheck(text, answer) ==
  IF answer.kind = "throw" THEN text
  ELSE IF ~answer.json THEN text
  ELSE IF Falsy(answer.cleanedTranscript) THEN text
  ELSE answer.cleanedTranscript.s

\* What formatTranscript(text) returns when its fetch has settled.
formatTranscriptResult(text, answer) ==
  IF answer.kind = "throw" THEN text
  ELSE IF ~Ok(answer.status) THEN text
  ELSE IF ~answer.json THEN text
  ELSE IF Falsy(answer.cleanedTranscript) THEN text
  ELSE answer.cleanedTranscript.s

\* CleanSettles with formatTranscript throwing on a failed call instead of
\* returning the text.
CleanSettlesThrows ==
  /\ cpc = "cleanFetch"
  /\ UNCHANGED relayVars
  /\ \E answer \in CleanAnswers :
       /\ cleanAnswer' = answer
       /\ IF answer.kind = "throw" \/ ~Ok(answer.status)
          THEN /\ Throw(<<"Failed to clean transcript">>)
               /\ pending' = {}
               /\ UNCHANGED <<formattedTranscript, requests, currentStepIndex>>
          ELSE LET formatted == formatTranscriptResult(runTranscript, answer) IN
               /\ formattedTranscript' = formatted
               /\ requests' = Append(requests,
                                     [url |-> <<GeneratePath>>,
                                      body |-> generateRequestBody(formatted, videoTitleOf(videoId)),
                                      by |-> "handleProcess", run |-> runs])
               /\ pending' = {Len(requests) + 1}
               /\ SetDisplay(updateStep(updateStep(Display, "clean", "completed", <<>>),
                                        "generate", "active",
                                        <<"Generating SEO content with Claude AI...">>))
               /\ cpc' = "generateFetch"
               /\ UNCHANGED errorMessage
  /\ UNCHANGED <<runs, downloads, runUrl, runTranscript, closureIndex, videoId,
                 thumbnailUrl, generateAnswer, generatedContent, processing,
                 processingStep, results, alerts>>

\* The fetch of formatTranscript settles; step 3 ends and step 4 starts the
\* fetch of generateContent.
CleanSettles ==
  /\ cpc = "cleanFetch"
  /\ UNCHANGED relayVars
  /\ \E answer \in CleanAnswers :
       LET formatted == formatTranscriptResult(runTranscript, answer) IN
       /\ cleanAnswer' = answer
       /\ formattedTranscript' = formatted
       /\ requests' = Append(requests,
                             [url |-> <<GeneratePath>>,
                              body |-> generateRequestBody(formatted, videoTitleOf(videoId)),
                              by |-> "handleProcess", run |-> runs])
       /\ pending' = {Len(requests) + 1}
  /\ SetDisplay(updateStep(updateStep(Display, "clean", "completed", <<>>),
                           "generate", "active",
                           <<"Generating SEO content with Claude AI...">>))
  /\ cpc' = "generateFetch"
  /\ UNCHANGED <<runs, downloads, runUrl, runTranscript, closureIndex, videoId,
                 thumbnailUrl, generateAnswer, generatedContent, errorMessage,
                 processing, processingStep, results, alerts>>

\* What generateContent does when its fetch has settled: it returns the data,
\* or throws an Error with a message.
generateContentResult(answer) ==
  IF answer.kind = "throw"
  THEN [ok |-> FALSE, data |-> NoContent,
        message |-> OrElse(answer.message, <<"Failed to generate content">>)]
  ELSE IF ~answer.json
  THEN [ok |-> FALSE, data |-> NoContent, message |-> JsonErrorMessage]
  ELSE IF ~Ok(answer.status)
  THEN [ok |-> FALSE, data |-> NoContent,
        message |-> OrElse(answer.error, <<"Failed to generate content">>)]
  ELSE [ok |-> TRUE, data |-> answer.content, message |-> <<>>]

\* The fetch of generateContent settles; step 4 ends and step 5 starts, or
\* the run throws.
GenerateSettles ==
  /\ cpc = "generateFetch"
  /\ UNCHANGED relayVars
  /\ pending' = {}
  /\ \E answer \in GenerateAnswers :
       LET got == generateContentResult(answer) IN
       /\ generateAnswer' = answer
       /\ IF got.ok
          THEN /\ generatedContent' = got.data
               /\ SetDisplay(updateStep(updateStep(Display, "generate", "completed", <<>>),
                                        "finalize", "active", <<>>))
               /\ cpc' = "finalize"
               /\ UNCHANGED errorMessage
          ELSE /\ Throw(got.message)
               /\ UNCHANGED <<generatedContent, currentStepIndex>>
  /\ UNCHANGED <<runs, downloads, runUrl, runTranscript, closureIndex, videoId,
                 thumbnailUrl, cleanAnswer, formattedTranscript, processing,
                 processingStep, results, alerts, requests>>

\* schemaMarkupOf without the left operand of ||: the schema is always
\* generated from the FAQs.
schemaMarkupOfGeneratedOnly(content) ==
  [generated |-> generateFAQSchema(content.faqs.items)]

\* generatedContent.schemaMarkup || generateFAQSchema(generatedContent.faqs)
schemaMarkupOf(content) ==
  IF Falsy(content.schemaMarkup)
  THEN [generated |-> generateFAQSchema(content.faqs.items)]
  ELSE [given |-> content.schemaMarkup]

\* Step 5 after its 300 ms: setResults, or faqs.map throws on an undefined faqs.
FinalizeDone ==
  /\ cpc = "finalize"
  /\ UNCHANGED relayVars
  /\ IF Falsy(generatedContent.schemaMarkup) /\ ~generatedContent.faqs.def
     THEN /\ Throw(TypeErrorMessage)
          /\ UNCHANGED <<results, currentStepIndex>>
     ELSE /\ results' =
               [ def |-> TRUE,
                 videoId |-> videoId,
                 formattedTranscript |-> formattedTranscript,
                 thumbnailUrl |-> thumbnailUrl,
                 seoTitle |-> generatedContent.seoTitle,
                 faqs |-> generatedContent.faqs,
                 schemaMarkup |-> schemaMarkupOf(generatedContent) ]
          /\ SetDisplay(updateStep(Display, "finalize", "completed", <<>>))
          /\ cpc' = "closing"
          /\ UNCHANGED errorMessage
  /\ UNCHANGED <<runs, downloads, runUrl, runTranscript, closureIndex, videoId,
                 thumbnailUrl, cleanAnswer, generateAnswer, formattedTranscript, generatedContent,
                 processing, processingStep, alerts, requests, pending>>

\* The 1000 ms before the modal closes have passed; finally sets its timer.
CloseDelayDone ==
  /\ cpc = "closing"
  /\ UNCHANGED relayVars
  /\ cpc' = "resetTimer"
  /\ UNCHANGED <<runs, downloads, runVars, displayVars, results, alerts, requests, pending>>

\* The catch block's timer fires: the alert is shown.
AlertFires ==
  /\ cpc = "alertTimer"
  /\ UNCHANGED relayVars
  /\ alerts' = Append(alerts, <<"Error: ">> \o errorMessage)
  /\ cpc' = "resetTimer"
  /\ UNCHANGED <<runs, downloads, runVars, displayVars, results, requests, pending>>

\* The finally block's timer fires: the processing state is reset.
ResetFires ==
  /\ cpc = "resetTimer"
  /\ UNCHANGED relayVars
  /\ processing' = FALSE
  /\ processingStep' = ""
  /\ processingSteps' = <<>>
  /\ currentStepIndex' = 0
  /\ cpc' = "idle"
  /\ UNCHANGED <<runs, downloads, runVars, results, alerts, requests, pending>>

\* downloadThumbnail: the image is fetched (the modal covers the button while
\* a run is on).
DownloadThumbnail ==
  /\ cpc = "idle"
  /\ UNCHANGED relayVars
  /\ results.def
  /\ downloads < MaxDownloads
  /\ downloads' = downloads + 1
  /\ requests' = Append(requests, [url |-> results.thumbnailUrl, body |-> <<>>,
                                   by |-> "downloadThumbnail", run |-> runs])
  /\ UNCHANGED <<cpc, runs, runVars, displayVars, results, alerts, pending>>

ClientNext ==
  \/ Click
  \/ ValidateDone
  \/ ExtractDone
  \/ CleanSettles
  \/ GenerateSettles
  \/ FinalizeDone
  \/ CloseDelayDone
  \/ AlertFires
  \/ ResetFires
  \/ DownloadThumbnail

\* The client alone; what the relay answers is drawn from CleanAnswers and
\* GenerateAnswers.
ClientInit ==
  /\ revision = "claude"
  /\ apiKey = <<>>
  /\ RelayIdle
  /\ ClientIdle

ClientSpec == ClientInit /\ [][ClientNext]_vars

\* A click with a transcript and a URL put together from pieces.
UrlClick == ClickOn(UrlInputs, FormTranscripts \ {<<>>})

UrlNext ==
  \/ UrlClick
  \/ ValidateDone

\* The form with every URL of UrlInputs, up to the end of the validate step,
\* where extractVideoId is applied to the URL.
UrlSpec == ClientInit /\ [][UrlNext]_vars

\* ------------------------------------------------------------ the claims

\* The outbound call of request r failed: fetch threw, or the upstream
\* answered with a non-2xx status.
UpstreamFailed(r) ==
  \/ upstream[r].outcome.kind = "throw"
  \/ upstream[r].outcome.kind = "response" /\ ~Ok(upstream[r].outcome.status)

\* C1: a request to either endpoint causes at most one outbound call to the
\* LLM API, and once that call has failed (thrown, or answered non-2xx) the
\* request has exactly the one call it started with and none in flight: there
\* is no retry.
C1_AtMostOneCallNoRetry ==
  \A r \in Requests :
    /\ Len(calls[r]) <= 1
    /\ UpstreamFailed(r) => Len(calls[r]) = 1 /\ pc[r] # "fetch"

\* C1's case: a request whose fetch threw has been answered.
C1_Witness ==
  \E r \in Requests :
    /\ pc[r] = "done"
    /\ upstream[r].outcome.kind = "throw"
    /\ Len(calls[r]) = 1

\* C2: a handler writes no response before it finishes and exactly one when
\* it has finished, whichever path it took.
C2_ExactlyOneResponse ==
  \A r \in Requests :
    /\ pc[r] # "done" => sent[r] = <<>>
    /\ pc[r] = "done" => Len(sent[r]) = 1

\* C2's case: two requests have finished on different paths, one rejected for
\* its missing transcript and one answered after an upstream error.
C2_Witness ==
  \E r1, r2 \in Requests :
    /\ pc[r1] = "done" /\ Falsy(req[r1].body.transcript)
    /\ pc[r2] = "done" /\ UpstreamFailed(r2)
    /\ Len(sent[r1]) = 1 /\ Len(sent[r2]) = 1

TranscriptRequired == [status |-> 400, body |-> [error |-> <<"Transcript is required">>]]

\* C3: a request without a transcript, or with an empty one, is answered 400
\* "Transcript is required" and starts no outbound call, whether or not the
\* API key is configured.
C3_TranscriptValidatedFirst ==
  \A r \in Requests :
    pc[r] # "idle" /\ Falsy(req[r].body.transcript)
      => /\ pc[r] = "done"
         /\ sent[r] = <<TranscriptRequired>>
         /\ calls[r] = <<>>

\* C3's case: with no API key configured, a request with an undefined
\* transcript and one with an empty transcript have both been answered.
C3_Witness ==
  /\ apiKey = <<>>
  /\ \E r1, r2 \in Requests :
       /\ pc[r1] = "done" /\ req[r1].body.transcript = Undefined
       /\ pc[r2] = "done" /\ req[r2].body.transcript = Str(<<>>)

\* What the handler answers to request q when it runs alone and its outbound
\* call settles with outcome and then body.
SoloRun(rev, key, q, outcome, body) ==
  LET start == handlerStart(rev, key, q) IN
  IF start.pc = "done" THEN start.sent
  ELSE LET settled == onFetchSettled(rev, q, outcome) IN
       IF settled.pc = "done" THEN start.sent \o settled.sent
       ELSE start.sent \o settled.sent \o onBodyRead(rev, q, outcome.status, body).sent

\* C7: whatever the interleaving with other requests, a finished request has
\* the answer its handler gives when run alone on the same body, with the same
\* API key and the same answer to its own outbound call.
C7_AnswerDependsOnOwnRequestOnly ==
  \A r \in Requests :
    pc[r] = "done"
      => sent[r] = SoloRun(revision, apiKey, req[r], upstream[r].outcome, upstream[r].body)

\* C7's case: the second request was answered from its own upstream answer
\* while the first, whose upstream answered something else, was still waiting
\* for its body.
C7_Witness ==
  /\ MaxReq >= 2
  /\ pc[1] = "body" /\ pc[2] = "done"
  /\ upstream[2].outcome.kind = "response"
  /\ upstream[2].outcome.status # upstream[1].outcome.status
  /\ Ok(upstream[2].outcome.status)
  /\ upstream[2].body.content.def
  /\ sent[2][1].status = 200

\* t is c with whitespace removed at its two ends and nothing else changed.
IsTrimOf(t, c) ==
  \E i, j \in 0..Len(c) :
    /\ i + j <= Len(c)
    /\ t = SubSeq(c, i + 1, Len(c) - j)
    /\ \A n \in 1..i : c[n] \in Whitespace
    /\ \A n \in (Len(c) - j + 1)..Len(c) : c[n] \in Whitespace
    /\ t # <<>> => t[1] \notin Whitespace /\ t[Len(t)] \notin Whitespace

\* Request r's upstream call answered 2xx with a body that has a first
\* message with text.
AnsweredWithText(r) ==
  /\ pc[r] = "done"
  /\ upstream[r].outcome.kind = "response"
  /\ Ok(upstream[r].outcome.status)
  /\ upstream[r].body.kind = "object"
  /\ upstream[r].body.content.def

\* C8: when the upstream answers a clean-transcript call 2xx with a first
\* message text c, the relay answers 200 {cleanedTranscript: t} where t is c
\* without its leading and trailing whitespace and otherwise unchanged.
C8_CleanedTranscriptIsTrimmedText ==
  \A r \in Requests :
    AnsweredWithText(r) /\ req[r].endpoint = CleanPath
      => /\ Len(sent[r]) = 1
         /\ sent[r][1].status = 200
         /\ DOMAIN sent[r][1].body = {"cleanedTranscript"}
         /\ IsTrimOf(sent[r][1].body.cleanedTranscript, upstream[r].body.content.s)

\* C8's case: a text with whitespace before, inside and after it came back
\* with the inner whitespace kept.
C8_Witness ==
  \E r \in Requests :
    /\ AnsweredWithText(r) /\ req[r].endpoint = CleanPath
    /\ upstream[r].body.content.s = <<" ", "\n", "H", "i", " ", "y", "o", "u", "\n">>
    /\ sent[r][1].body.cleanedTranscript = <<"H", "i", " ", "y", "o", "u">>

\* The wrappings that are a markdown code fence, or nothing.
FenceOrBare == {w \in Wrappings : w.pre = <<>> \/ StartsWith(w.pre, Fence)}

\* C9: when the upstream answers a generate-content call 2xx with the text
\* of a JSON object, bare or in a markdown fence, the relay answers 200 with
\* exactly the object the text encodes.
C9_GeneratedObjectVerbatim ==
  \A r \in Requests :
    AnsweredWithText(r) /\ req[r].endpoint = GeneratePath
      => \A o \in ContentObjects : \A w \in FenceOrBare :
           upstream[r].body.content.s = Wrap(w, Encode(o))
             => sent[r] = <<[status |-> 200, body |-> o]>>

\* C10: when the upstream answers non-2xx, the relay answers with the same
\* status and a body {error: message}, whatever the error body and the
\* revision.
C10_UpstreamStatusPassedOn ==
  \A r \in Requests :
    pc[r] = "done" /\ upstream[r].outcome.kind = "response"
                   /\ ~Ok(upstream[r].outcome.status)
      => /\ Len(sent[r]) = 1
         /\ sent[r][1].status = upstream[r].outcome.status
         /\ DOMAIN sent[r][1].body = {"error"}

\* The indices in requests of the fetches handleProcess started in run k for
\* the given path.
RunRequests(k, path) ==
  {i \in 1..Len(requests) :
     /\ requests[i].by = "handleProcess"
     /\ requests[i].run = k
     /\ requests[i].url = <<path>>}

\* C4: at most one fetch of the client is in flight, and every request to
\* /api/generate-content comes after a request of the same run to
\* /api/clean-transcript that has settled.
C4_CleanThenGenerate ==
  /\ Cardinality(pending) <= 1
  /\ \A i \in 1..Len(requests) :
       requests[i].by = "handleProcess" /\ requests[i].url = <<GeneratePath>>
         => \E j \in 1..(i - 1) :
              /\ requests[j].by = "handleProcess"
              /\ requests[j].url = <<CleanPath>>
              /\ requests[j].run = requests[i].run
              /\ j \notin pending

\* C4's case: the clean request of the run failed in fetch and the generate
\* request of the run is in flight.
C4_Witness ==
  /\ cpc = "generateFetch"
  /\ cleanAnswer.kind = "throw"
  /\ RunRequests(runs, CleanPath) # {}
  /\ \E i \in RunRequests(runs, GeneratePath) : i \in pending

\* The cleanedTranscript of a 2xx answer that has a non-empty one, and the
\* user's transcript otherwise.
CleanedOrOriginal(text, answer) ==
  IF /\ answer.kind = "response"
     /\ answer.status \in 200..299
     /\ answer.json
     /\ answer.cleanedTranscript.def
     /\ answer.cleanedTranscript.s # <<>>
  THEN answer.cleanedTranscript.s
  ELSE text

\* C5: the transcript of the run's generate-content request is the
\* cleanedTranscript of a 2xx clean answer that has a non-empty one and the
\* user's transcript otherwise, and the results the run sets hold that same
\* value as formattedTranscript.
C5_FormattedTranscriptIsCleanedOrOriginal ==
  /\ cpc \in {"generateFetch", "finalize", "closing"}
       => /\ Cardinality(RunRequests(runs, GeneratePath)) = 1
          /\ \A i \in RunRequests(runs, GeneratePath) :
               requests[i].body.transcript = CleanedOrOriginal(runTranscript, cleanAnswer)
  /\ cpc = "closing"
       => /\ results.def
          /\ results.formattedTranscript = CleanedOrOriginal(runTranscript, cleanAnswer)

\* C5's case: a run whose results hold the cleaned transcript of a 2xx clean
\* answer, different from the transcript the user typed.
C5_Witness ==
  /\ cpc = "closing"
  /\ cleanAnswer.status = 200
  /\ results.formattedTranscript = <<"H", "i">>
  /\ results.formattedTranscript # runTranscript
  /\ \A i \in RunRequests(runs, GeneratePath) :
       requests[i].body.transcript = <<"H", "i">>

\* C6: the thumbnail URL of the results is built from the video id of the
\* run's URL alone, and a run of handleProcess fetches nothing but
\* /api/clean-transcript and /api/generate-content, each at most once.
C6_ThumbnailFromVideoIdNoOtherRequest ==
  /\ results.def
       => results.thumbnailUrl =
            <<"https://img.youtube.com/vi/">> \o results.videoId \o <<"/maxresdefault.jpg">>
  /\ cpc = "closing" => results.videoId = extractVideoId(runUrl)
  /\ \A i \in 1..Len(requests) :
       requests[i].by = "handleProcess"
         => requests[i].url \in {<<CleanPath>>, <<GeneratePath>>}
  /\ \A k \in 1..runs :
       /\ Cardinality(RunRequests(k, CleanPath)) <= 1
       /\ Cardinality(RunRequests(k, GeneratePath)) <= 1

\* C6's case: a run on a youtu.be URL has set its results after its two
\* requests.
C6_Witness ==
  /\ cpc = "closing"
  /\ results.thumbnailUrl = <<"https://img.youtube.com/vi/", "c", "d", "/maxresdefault.jpg">>
  /\ Cardinality(RunRequests(runs, CleanPath)) = 1
  /\ Cardinality(RunRequests(runs, GeneratePath)) = 1

\* C11: a call of handleProcess with an empty URL or an empty transcript only
\* shows the alert 'Please provide both URL and transcript': processing is
\* false before and after, the steps, the results and the position of the
\* handler are unchanged, and no request is started.
C11_EmptyInputOnlyAlerts ==
  [][ runs' = runs + 1 /\ (runUrl' = <<>> \/ runTranscript' = <<>>)
        => /\ alerts' = Append(alerts, <<"Please provide both URL and transcript">>)
           /\ processing = FALSE
           /\ processing' = FALSE
           /\ UNCHANGED <<cpc, processingStep, processingSteps, currentStepIndex,
                          results, requests, pending>> ]_vars

\* C11's case: the first click, with a URL and an empty transcript, has shown
\* the alert and nothing else has happened.
C11_Witness ==
  /\ runs = 1
  /\ runUrl # <<>>
  /\ runTranscript = <<>>
  /\ alerts = << <<"Please provide both URL and transcript">> >>
  /\ processing = FALSE
  /\ processingSteps = <<>>
  /\ requests = <<>>
  /\ results = NoResults

\* The request q with the video title "T".
Titled(q) ==
  [endpoint |-> q.endpoint,
   body |-> [transcript |-> q.body.transcript, videoTitle |-> Str(<<"T">>)]]

\* C12: a generate-content request with a transcript and no videoTitle, or an
\* empty one, is answered exactly as the same request with a videoTitle is for
\* the same upstream answer, and it causes exactly one outbound call when the
\* API key has the expected prefix.
C12_VideoTitleOptional ==
  \A r \in Requests :
    /\ pc[r] = "done"
    /\ req[r].endpoint = GeneratePath
    /\ ~Falsy(req[r].body.transcript)
    /\ Falsy(req[r].body.videoTitle)
    => /\ sent[r] = SoloRun(revision, apiKey, Titled(req[r]),
                            upstream[r].outcome, upstream[r].body)
       /\ Len(calls[r]) = Len(handlerStart(revision, apiKey, Titled(req[r])).calls)
       /\ StartsWith(apiKey, KeyPrefix(revision)) => Len(calls[r]) = 1

\* C12's case: requests without a videoTitle and with an empty one were both
\* answered 200 after one outbound call each.
C12_Witness ==
  \E r1, r2 \in Requests :
    /\ req[r1].endpoint = GeneratePath /\ req[r1].body.videoTitle = Undefined
    /\ req[r2].endpoint = GeneratePath /\ req[r2].body.videoTitle = Str(<<>>)
    /\ \A r \in {r1, r2} :
         /\ pc[r] = "done"
         /\ Len(calls[r]) = 1
         /\ sent[r][1].status = 200

\* The message names the key's format as invalid: it holds the pieces
\* 'Invalid ', the key's name and ' format...' in a row.
SaysInvalidFormat(message, name) ==
  \E i \in 1..(Len(message) - 2) :
    /\ message[i] = "Invalid "
    /\ message[i + 1] = name
    /\ message[i + 2] = " format. Should start with "

\* Request r, with a transcript, was answered 500 without an outbound call.
RefusedForKey(r) ==
  /\ pc[r] = "done"
  /\ calls[r] = <<>>
  /\ Len(sent[r]) = 1
  /\ sent[r][1].status = 500

\* Without a key a request with a transcript is answered 500 '<KEY> not
\* configured' and makes no outbound call.
NoKeyRefused(r) ==
  apiKey = <<>>
    => /\ RefusedForKey(r)
       /\ sent[r][1].body = [error |-> <<KeyName(revision), " not configured">>]

\* With a key of the wrong prefix a request with a transcript is answered 500
\* with a message that names the key's format as invalid, and makes no call.
WrongPrefixRefused(r) ==
  apiKey # <<>> /\ ~StartsWith(apiKey, KeyPrefix(revision))
    => /\ RefusedForKey(r)
       /\ SaysInvalidFormat(sent[r][1].body.error, KeyName(revision))

\* C13 as stated: an outbound call is made only when the key is set and has
\* the expected prefix; without a key the answer is 500 '<KEY> not configured',
\* with a key of the wrong prefix it is 500 'Invalid <KEY> format', and no
\* call is made in either case.
C13_CallOnlyWithWellFormedKey ==
  \A r \in Requests :
    pc[r] # "idle" /\ ~Falsy(req[r].body.transcript)
      => /\ NoKeyRefused(r)
         /\ WrongPrefixRefused(r)
         /\ calls[r] # <<>> => StartsWith(apiKey, KeyPrefix(revision))

\* C13, amended: an outbound call is made only when the key is set, and
\* without a key the answer is 500 '<KEY> not configured'; the revisions that
\* call through makeOpenAIRequest / makeClaudeRequest (server.js, part_001)
\* also refuse a key of the wrong prefix with 500 'Invalid <KEY> format',
\* while part_002 starts its call with a key of any form.
C13_CallOnlyWithKey ==
  \A r \in Requests :
    pc[r] # "idle" /\ ~Falsy(req[r].body.transcript)
      => /\ NoKeyRefused(r)
         /\ calls[r] # <<>> => apiKey # <<>>
         /\ revision # "claude0"
              => /\ WrongPrefixRefused(r)
                 /\ calls[r] # <<>> => StartsWith(apiKey, KeyPrefix(revision))
         /\ revision = "claude0" /\ apiKey # <<>> => Len(calls[r]) = 1

\* C13's case: the Anthropic revision of server.js, holding an OpenAI key,
\* has refused a request with a transcript.
C13_Witness ==
  /\ revision = "claude"
  /\ apiKey = <<"s", "k", "-", "1">>
  /\ \E r \in Requests :
       /\ ~Falsy(req[r].body.transcript)
       /\ RefusedForKey(r)
       /\ SaysInvalidFormat(sent[r][1].body.error, "ANTHROPIC_API_KEY")

\* `(${response.status})` for the statuses the upstream answers with.
StatusText(status) ==
  CASE status = 400 -> <<"4", "0", "0">>
    [] status = 401 -> <<"4", "0", "1">>
    [] status = 429 -> <<"4", "2", "9">>
    [] status = 503 -> <<"5", "0", "3">>
    [] status = 529 -> <<"5", "2", "9">>

\* The upstream's error message: error.message, else message, of the error
\* body; a body that is no JSON stands as 'Failed to parse error response'.
UpstreamMessage(body) ==
  IF body.kind = "nonjson" THEN <<"Failed to parse error response">>
  ELSE IF body.errorMessage # <<>> THEN body.errorMessage
  ELSE body.message

\* The message C14 gives for a status and an error body.
MappedMessage(rev, status, body) ==
  IF status = 429 /\ rev \in {"openai", "openai2"}
  THEN <<"OpenAI API rate limit exceeded. Please try again in a few minutes.">>
  ELSE IF status = 529 /\ rev = "claude"
  THEN <<"Claude API is temporarily overloaded. Please try again in a few minutes.">>
  ELSE IF status = 401 THEN <<"Invalid API key configuration">>
  ELSE IF status = 400 THEN <<"Invalid request format">>
  ELSE IF UpstreamMessage(body) # <<>> THEN UpstreamMessage(body)
  ELSE <<"Service temporarily unavailable">>

\* The upstream answered request r, a generate-content request to a revision
\* with the error mapping (server.js, part_001), with a non-2xx status.
GenerateUpstreamFailed(r) ==
  /\ pc[r] = "done"
  /\ revision # "claude0"
  /\ req[r].endpoint = GeneratePath
  /\ upstream[r].outcome.kind = "response"
  /\ ~Ok(upstream[r].outcome.status)

\* C14: on an upstream non-2xx answer /api/generate-content answers with that
\* status and the error 'API request failed (<status>): <message>', the message
\* being the fixed text for 429 (OpenAI) or 529 (Anthropic), 401 and 400
\* whatever the body, and for any other status the upstream's error message,
\* or 'Service temporarily unavailable' when there is none.
C14_ErrorMappedByStatus ==
  \A r \in Requests :
    GenerateUpstreamFailed(r)
      => LET status == upstream[r].outcome.status IN
         sent[r] =
           << [ status |-> status,
                body |-> [error |-> <<"API request failed (">> \o StatusText(status)
                                      \o <<"): ">>
                                      \o MappedMessage(revision, status, upstream[r].body)] ] >>

\* The upstream answered request r, a generate-content request, 2xx with a
\* JSON object as its body.
GenerateUpstreamOk(r) ==
  /\ pc[r] = "done"
  /\ req[r].endpoint = GeneratePath
  /\ upstream[r].outcome.kind = "response"
  /\ Ok(upstream[r].outcome.status)
  /\ upstream[r].body.kind = "object"

\* C15: when the upstream answers a generate-content call 2xx with unusable
\* content the relay answers 500: {error: 'Failed to parse generated content'}
\* for a text that is no JSON after the fences are removed, and an error
\* starting with 'Failed to generate content' for a body without the first
\* message's text.
C15_UnusableContentGives500 ==
  \A r \in Requests :
    GenerateUpstreamOk(r)
      => /\ upstream[r].body.content.def /\ upstream[r].body.content.s \in PlainTexts
              => sent[r] = << [ status |-> 500,
                               body |-> [error |-> <<"Failed to parse generated content">>] ] >>
         /\ ~upstream[r].body.content.def
              => /\ Len(sent[r]) = 1
                 /\ sent[r][1].status = 500
                 /\ DOMAIN sent[r][1].body = {"error"}
                 /\ Head(sent[r][1].body.error)
                      \in {"Failed to generate content", "Failed to generate content: "}

\* C15's case: one request got a fenced text that is no JSON and another a
\* body without the message structure, and both were answered 500.
C15_Witness ==
  \E r1, r2 \in Requests :
    /\ GenerateUpstreamOk(r1)
    /\ upstream[r1].body.content = Str(FenceJson \o <<"\n", "o", "k", "\n">> \o Fence)
    /\ sent[r1][1].status = 500
    /\ GenerateUpstreamOk(r2)
    /\ ~upstream[r2].body.content.def
    /\ sent[r2][1].status = 500

\* C16: a run whose URL yields no video id fails in the validate step with
\* 'Invalid YouTube URL': it gets no further than that step, the steps after
\* validate stay pending, the validate step is the one marked failed, the
\* alert shows that error, and from its start to its end no request is sent
\* and the results are not set.  (The URL of the run a step belongs to is the
\* one the click sets, or the one the run already holds.)
C16_InvalidUrlFailsInValidate ==
  [][ (cpc # "idle" \/ cpc' # "idle")
        /\ extractVideoId(IF cpc = "idle" THEN runUrl' ELSE runUrl) = <<>>
        => /\ UNCHANGED <<results, requests, pending>>
           /\ cpc' \in {"validate", "alertTimer", "resetTimer", "idle"}
           /\ cpc' # "idle"
                => \A i \in 2..Len(processingSteps') : processingSteps'[i].status = "pending"
           /\ cpc' \in {"alertTimer", "resetTimer"}
                => /\ errorMessage' = <<"Invalid YouTube URL">>
                   /\ processingSteps'[1].id = "validate"
                   /\ processingSteps'[1].status = "failed"
                   /\ processingSteps'[1].description = <<"Error: ", "Invalid YouTube URL">>
           /\ cpc = "alertTimer"
                => alerts' = Append(alerts, <<"Error: ", "Invalid YouTube URL">>)
           /\ cpc' = "idle" => cpc = "resetTimer" ]_vars

\* C16's case: a run on a URL that is no YouTube URL has thrown in its
\* validate step before any request.
C16_Witness ==
  /\ cpc = "alertTimer"
  /\ runUrl = Https \o <<"x", ".", "y">>
  /\ errorMessage = <<"Invalid YouTube URL">>
  /\ processingSteps[1].status = "failed"
  /\ processingSteps[2].status = "pending"
  /\ RunRequests(runs, CleanPath) = {}
  /\ RunRequests(runs, GeneratePath) = {}

\* The positions in url where one of the two markers starts.
MarkerStarts(url) ==
  {p \in 1..Len(url) :
     \E marker \in {WatchMarker, ShortMarker} :
       /\ p + Len(marker) - 1 <= Len(url)
       /\ SubSeq(url, p, p + Len(marker) - 1) = marker}

\* The position right after the marker that starts at p.
AfterMarker(url, p) ==
  IF SubSeq(url, p, p + Len(ShortMarker) - 1) = ShortMarker
  THEN p + Len(ShortMarker)
  ELSE p + Len(WatchMarker)

\* The maximal run of characters other than '&', newline, '?' and '#' that
\* starts at position q of url.
RunFrom(url, q) ==
  LET n == CHOOSE n \in 0..(Len(url) - q + 1) :
             /\ \A k \in q..(q + n - 1) : url[k] \notin {"&", "\n", "?", "#"}
             /\ q + n > Len(url) \/ url[q + n] \in {"&", "\n", "?", "#"}
  IN  SubSeq(url, q, q + n - 1)

\* The least position of a non-empty set of positions.
First(positions) == CHOOSE p \in positions : \A other \in positions : p <= other

\* C17 as stated: the run after the first occurrence of a marker, and null
\* (here <<>>) when there is no marker or that run is empty.
IdAfterFirstMarker(url) ==
  IF MarkerStarts(url) = {} THEN <<>>
  ELSE RunFrom(url, AfterMarker(url, First(MarkerStarts(url))))

\* The run after the first occurrence of a marker that a non-empty run
\* follows, and null (here <<>>) when there is no such occurrence.
IdAfterFirstFollowedMarker(url) ==
  LET followed == {p \in MarkerStarts(url) : RunFrom(url, AfterMarker(url, p)) # <<>>} IN
  IF followed = {} THEN <<>>
  ELSE RunFrom(url, AfterMarker(url, First(followed)))

\* The validate step has applied extractVideoId to the URL and found id
\* (<<>> when it threw for a null).
Extracted(id) ==
  /\ cpc = "extract" => videoId = id /\ id # <<>>
  /\ cpc = "alertTimer" => id = <<>>

\* C17 as stated: extractVideoId(url) is the non-empty maximal run of
\* characters other than '&', newline, '?' and '#' after the first occurrence
\* of 'youtube.com/watch?v=' or 'youtu.be/', and null when neither occurs or
\* the run after that first occurrence is empty.
C17_IdFollowsFirstMarker == Extracted(IdAfterFirstMarker(runUrl))

\* C17, amended: extractVideoId(url) is the non-empty maximal run of characters
\* other than '&', newline, '?' and '#' after the first occurrence of a marker
\* that such a run follows, and null when no marker is followed by one; a
\* watch URL with v in second place and no other marker yields null.
C17_IdFollowsFirstFollowedMarker ==
  /\ Extracted(IdAfterFirstFollowedMarker(runUrl))
  /\ runUrl = WatchOther \o <<"a">> => cpc # "extract"

\* C17's case: the first marker of the URL is followed by '?', the second by
\* an id, and the validate step has found that id.
C17_Witness ==
  /\ runUrl = ShortMarker \o <<"?">> \o WatchMarker \o <<"a">>
  /\ cpc = "extract"
  /\ videoId = <<"a">>

\* The status of step i before a change of the display: the steps start
\* pending when the display is set up.
StatusBefore(i) ==
  IF processingSteps = <<>> THEN "pending" ELSE processingSteps[i].status

\* C18: the display holds the five steps in the order validate, extract,
\* clean, generate, finalize; at most one of them is active; a step becomes
\* active only when every step before it is completed, and becomes completed
\* only from active.
C18_StepsAdvanceInOrder ==
  [][ /\ processingSteps' # <<>>
        => [i \in 1..Len(processingSteps') |-> processingSteps'[i].id]
             = <<"validate", "extract", "clean", "generate", "finalize">>
      /\ Cardinality({i \in 1..Len(processingSteps') :
                        processingSteps'[i].status = "active"}) <= 1
      /\ \A i \in 1..Len(processingSteps') :
           /\ processingSteps'[i].status = "active" /\ StatusBefore(i) # "active"
                => \A j \in 1..(i - 1) : processingSteps'[j].status = "completed"
           /\ processingSteps'[i].status = "completed" /\ StatusBefore(i) # "completed"
                => StatusBefore(i) = "active" ]_vars

\* C18's case: the run has reached its fourth step, the three before it are
\* completed and the fifth is pending.
C18_Witness ==
  /\ cpc = "generateFetch"
  /\ [i \in 1..Len(processingSteps) |-> processingSteps[i].status]
       = <<"completed", "completed", "completed", "active", "pending">>

\* C19: when a run throws, the step that was active is marked failed with the
\* description 'Error: <message>' and no other step changes its status.
C19_ActiveStepMarkedFailed ==
  [][ cpc # "alertTimer" /\ cpc' = "alertTimer"
        => \A i \in 1..Len(processingSteps) :
             IF processingSteps[i].status = "active"
             THEN /\ processingSteps'[i].status = "failed"
                  /\ processingSteps'[i].description = <<"Error: ">> \o errorMessage'
             ELSE processingSteps'[i].status = processingSteps[i].status ]_vars

\* The clean-transcript call failed: its fetch threw, it was answered non-2xx,
\* or its 2xx answer has an empty cleanedTranscript.
CleanFailed(answer) ==
  \/ answer.kind = "throw"
  \/ answer.kind = "response" /\ answer.status \notin 200..299
  \/ /\ answer.kind = "response"
     /\ answer.json
     /\ answer.cleanedTranscript = Str(<<>>)

\* C20: when the clean-transcript call of a run has failed the run goes on:
\* formatTranscript has returned the user's transcript, the clean step is
\* completed, no error is raised and no alert shown, and the generate-content
\* request is sent with the user's transcript.
C20_CleanFailureNeverAborts ==
  [][ cpc = "cleanFetch" /\ cpc' # "cleanFetch" /\ CleanFailed(cleanAnswer')
        => /\ cpc' = "generateFetch"
           /\ formattedTranscript' = runTranscript
           /\ processingSteps'[3].id = "clean"
           /\ processingSteps'[3].status = "completed"
           /\ \A i \in 1..Len(processingSteps') : processingSteps'[i].status # "failed"
           /\ errorMessage' = <<>>
           /\ alerts' = alerts
           /\ Len(requests') = Len(requests) + 1
           /\ requests'[Len(requests')].url = <<GeneratePath>>
           /\ requests'[Len(requests')].body.transcript = runTranscript ]_vars

\* C20's case: after a 500 from /api/clean-transcript the clean step is
\* completed and the generate-content request is in flight with the user's
\* transcript.
C20_Witness ==
  /\ cpc = "generateFetch"
  /\ cleanAnswer.kind = "response"
  /\ cleanAnswer.status = 500
  /\ formattedTranscript = runTranscript
  /\ processingSteps[3].status = "completed"
  /\ \E i \in RunRequests(runs, GeneratePath) :
       /\ i \in pending
       /\ requests[i].body.transcript = runTranscript

\* The generate-content call failed: its fetch threw, or it was answered
\* non-2xx.
GenerateFailed(answer) ==
  \/ answer.kind = "throw"
  \/ answer.kind = "response" /\ answer.status \notin 200..299

\* The message C21 gives for a failed call: the fetch error's message, the
\* error field of the answer when it has one, 'Failed to generate content'
\* otherwise.
FailureMessage(answer) ==
  IF answer.kind = "throw" /\ answer.message # <<>> THEN answer.message
  ELSE IF answer.kind = "response" /\ answer.error # <<>> THEN answer.error
  ELSE <<"Failed to generate content">>

\* C21: when the generate-content call of a run fails, the run raises the
\* error with the message of FailureMessage and neither alerts nor sends
\* anything at once; then one alert 'Error: <message>' is shown while
\* processing is still set; then the processing state is reset without
\* another alert; the request is sent once in the run.
C21_GenerateFailureAlertedOnce ==
  [][ /\ cpc = "generateFetch" /\ cpc' # "generateFetch" /\ GenerateFailed(generateAnswer')
        => /\ cpc' = "alertTimer"
           /\ errorMessage' = FailureMessage(generateAnswer')
           /\ UNCHANGED <<alerts, requests, processing>>
      /\ cpc = "alertTimer" /\ GenerateFailed(generateAnswer)
        => /\ alerts' = Append(alerts, <<"Error: ">> \o FailureMessage(generateAnswer))
           /\ processing /\ processing'
           /\ processingSteps' # <<>>
           /\ cpc' = "resetTimer"
           /\ UNCHANGED requests
      /\ cpc = "resetTimer" /\ GenerateFailed(generateAnswer)
        => /\ ~processing'
           /\ cpc' = "idle"
           /\ UNCHANGED <<alerts, requests>>
           /\ Cardinality(RunRequests(runs, GeneratePath)) = 1 ]_vars

\* The FAQPage script has one Question entry per FAQ, in the order of the
\* FAQs, with name = question and acceptedAnswer.text = answer.
IsFaqPageOf(script, faqs) ==
  /\ script.open = "<script type=\"application/ld+json\">"
  /\ script.close = "</script>"
  /\ script.context = "https://schema.org"
  /\ script.type = "FAQPage"
  /\ Len(script.mainEntity) = Len(faqs)
  /\ \A i \in 1..Len(faqs) :
       /\ script.mainEntity[i].type = "Question"
       /\ script.mainEntity[i].name = faqs[i].question
       /\ script.mainEntity[i].acceptedAnswer.type = "Answer"
       /\ script.mainEntity[i].acceptedAnswer.text = faqs[i].answer

\* C22: the schemaMarkup of the results a run has set is the schemaMarkup the
\* relay returned when that is non-empty, and otherwise the FAQPage script
\* generateFAQSchema makes of the returned FAQs, one Question per FAQ in order.
C22_SchemaMarkupGivenOrGenerated ==
  cpc = "closing"
    => /\ results.def
       /\ LET returned == generateAnswer.content IN
          IF returned.schemaMarkup.def /\ returned.schemaMarkup.s # <<>>
          THEN results.schemaMarkup = [given |-> returned.schemaMarkup]
          ELSE /\ DOMAIN results.schemaMarkup = {"generated"}
               /\ IsFaqPageOf(results.schemaMarkup.generated, returned.faqs.items)

\* C22's case: the relay returned two FAQs and an empty schemaMarkup, and the
\* results hold the script with the two questions in their order.
C22_Witness ==
  /\ cpc = "closing"
  /\ generateAnswer.content.schemaMarkup = Str(<<>>)
  /\ DOMAIN results.schemaMarkup = {"generated"}
  /\ Len(results.schemaMarkup.generated.mainEntity) = 2
  /\ results.schemaMarkup.generated.mainEntity[1].name = <<"Q", "1">>
  /\ results.schemaMarkup.generated.mainEntity[2].name = <<"Q", "2">>
  /\ results.schemaMarkup.generated.mainEntity[2].acceptedAnswer.text = <<"A", "2">>

====
